---- MODULE Spec2Model ----
(***************************************************************************)
(* Model of docs/js/index.mjs: the <network-last-request> custom element.  *)
(* Every constructed element wraps window.fetch and the three              *)
(* XMLHttpRequest.prototype methods on top of whatever is installed at     *)
(* that moment, keeps the last captured request in this.lastRequest and    *)
(* renders it as an HTTP/1.1 message into this.container.                  *)
(*                                                                         *)
(* JavaScript values are tagged records [t |-> <type>, ...].  A string     *)
(* the code inspects character by character (a request body) is a sequence *)
(* of one-character strings; a string the code only copies or interpolates *)
(* (method, url, header names and values) is a TLA+ string.                *)
(***************************************************************************)
EXTENDS Integers, Sequences, FiniteSets, TLC

\* ------------------------------------------------------------------ bounds
MaxCalls == 3       \* page-level calls to fetch / open / setRequestHeader / send
MaxDisplays == 2    \* constructed <network-last-request> elements

\* ------------------------------------------------------- JavaScript values
UNDEF == [t |-> "undefined"]
NULLV == [t |-> "null"]
S(s) == [t |-> "string", s |-> s]

\* a string with its characters visible: "hello" is Chars(<<"h","e","l","l","o">>)
Chars(cs) == [t |-> "string", cs |-> cs]

RECURSIVE Join(_)
\* the TLA+ string spelled by a sequence of strings
Join(cs) == IF cs = <<>> THEN "" ELSE Head(cs) \o Join(Tail(cs))

\* ToBoolean, for the values the model draws
Truthy(v) ==
  CASE v.t = "undefined" -> FALSE
    [] v.t = "null" -> FALSE
    [] v.t = "string" -> IF "cs" \in DOMAIN v THEN v.cs # <<>> ELSE v.s # ""
    [] v.t = "number" -> v.n # 0
    [] OTHER -> TRUE

\* ------------------------------------------------- ordinary object properties
\* An ordinary object ({} at lines 68 and 114) is the sequence of its own
\* enumerable properties [k, v] in the order Object.keys / Object.entries /
\* spread enumerate them: array-index keys first, ascending, then the other
\* string keys in the order they were created.

\* the array index a property key spells, -1 when it spells none
ArrayIndex(k) ==
  CASE k = "0" -> 0 [] k = "1" -> 1 [] k = "2" -> 2 [] OTHER -> -1

HasProp(o, k) == \E i \in 1..Len(o) : o[i].k = k

\* the position a new key takes in the enumeration order
InsertAt(o, k) ==
  IF ArrayIndex(k) < 0 THEN Len(o) + 1
  ELSE 1 + Cardinality({i \in 1..Len(o) :
                          ArrayIndex(o[i].k) >= 0 /\ ArrayIndex(o[i].k) < ArrayIndex(k)})

\* o[k] = v on an ordinary object whose prototype is Object.prototype.
\* "__proto__" is the accessor inherited from Object.prototype: assigning a
\* primitive to it does nothing and creates no own property.
SetProp(o, k, v) ==
  IF k = "__proto__" THEN o
  ELSE IF HasProp(o, k)
       THEN [i \in 1..Len(o) |-> IF o[i].k = k THEN [k |-> k, v |-> v] ELSE o[i]]
  ELSE LET p == InsertAt(o, k)
       IN  SubSeq(o, 1, p - 1) \o <<[k |-> k, v |-> v]>> \o SubSeq(o, p, Len(o))

RECURSIVE SetAll(_, _)
\* the properties of `entries` assigned one by one, in order, onto o
SetAll(o, entries) ==
  IF entries = <<>> THEN o
  ELSE SetAll(SetProp(o, Head(entries).k, Head(entries).v), Tail(entries))

\* `${value}` for a property value
ToStr(v) ==
  CASE v.t = "string" -> v.s
    [] v.t = "array" -> v.s
    [] OTHER -> v.t

\* --------------------------------------------------------------- formatHtml
Whitespace == {" ", "\n", "\t"}

RECURSIVE TrimStart(_)
TrimStart(cs) ==
  IF cs # <<>> /\ Head(cs) \in Whitespace THEN TrimStart(Tail(cs)) ELSE cs

RECURSIVE TrimEnd(_)
TrimEnd(cs) ==
  IF cs # <<>> /\ cs[Len(cs)] \in Whitespace
  THEN TrimEnd(SubSeq(cs, 1, Len(cs) - 1)) ELSE cs

\* String.prototype.trim
Trim(cs) == TrimEnd(TrimStart(cs))

StartsWith(cs, p) == Len(cs) >= Len(p) /\ SubSeq(cs, 1, Len(p)) = p
EndsWith(cs, p) == Len(cs) >= Len(p) /\ SubSeq(cs, Len(cs) - Len(p) + 1, Len(cs)) = p
Includes(cs, p) == \E i \in 1..(Len(cs) - Len(p) + 1) : SubSeq(cs, i, i + Len(p) - 1) = p

RECURSIVE BreakTags(_)
\* html.replace(/></g, '>\n<')
BreakTags(cs) ==
  IF Len(cs) < 2 THEN cs
  ELSE IF cs[1] = ">" /\ cs[2] = "<"
       THEN <<">", "\n">> \o BreakTags(Tail(cs))
       ELSE <<Head(cs)>> \o BreakTags(Tail(cs))

RECURSIVE SplitLines(_, _)
\* str.split('\n'); cur is the line being collected
SplitLines(cs, cur) ==
  IF cs = <<>> THEN <<cur>>
  ELSE IF Head(cs) = "\n" THEN <<cur>> \o SplitLines(Tail(cs), <<>>)
  ELSE SplitLines(Tail(cs), Append(cur, Head(cs)))

RECURSIVE Repeat(_, _)
\* '  '.repeat(n), as characters
Repeat(cs, n) == IF n <= 0 THEN <<>> ELSE cs \o Repeat(cs, n - 1)

Max(a, b) == IF a >= b THEN a ELSE b

RECURSIVE FormatLines(_, _, _)
\* the for loop of formatHtml over the lines still to read
FormatLines(lines, indent, formatted) ==
  IF lines = <<>> THEN formatted
  ELSE LET line == Trim(Head(lines))
           closing == StartsWith(line, <<"<", "/">>)
           ind == IF closing THEN Max(0, indent - 1) ELSE indent
           opens == /\ StartsWith(line, <<"<">>)
                    /\ ~closing
                    /\ ~EndsWith(line, <<"/", ">">>)
                    /\ ~Includes(line, <<"<", "/">>)
       IN  IF line = <<>> THEN FormatLines(Tail(lines), indent, formatted)
           ELSE FormatLines(Tail(lines),
                            IF opens THEN ind + 1 ELSE ind,
                            formatted \o Repeat(<<" ", " ">>, ind) \o line \o <<"\n">>)

formatHtml(html) ==
  Trim(FormatLines(SplitLines(BreakTags(html), <<>>), 0, <<>>))

\* --------------------------------------------------------------- formatBody
RECURSIVE JoinEntries(_)
\* entries.join('\n') over `${key}: ${value}`
JoinEntries(es) ==
  IF es = <<>> THEN ""
  ELSE Head(es).k \o ": " \o Head(es).v
       \o (IF Len(es) > 1 THEN "\n" ELSE "") \o JoinEntries(Tail(es))

\* body.toString() is not callable on an object without a prototype
BodyThrows(body) == Truthy(body) /\ body.t = "bare"

\* formatBody(body): NULLV or S(text); defined where BodyThrows is false
formatBody(body) ==
  IF ~Truthy(body) THEN NULLV
  ELSE CASE body.t = "string" ->
              IF StartsWith(Trim(body.cs), <<"<">>) /\ EndsWith(Trim(body.cs), <<">">>)
              THEN S(Join(formatHtml(body.cs)))
              ELSE S(Join(body.cs))
         [] body.t = "FormData" -> S(JoinEntries(body.entries))
         [] OTHER -> S(body.str)

\* ------------------------------------------------------------------- render
EmptyState ==
  [tag |-> "div.empty-state", text |-> "No requests captured yet", time |-> 0]

RECURSIVE HeaderLines(_)
\* the for loop over Object.entries(headers)
HeaderLines(hs) ==
  IF hs = <<>> THEN ""
  ELSE "\n" \o Head(hs).k \o ": " \o ToStr(Head(hs).v) \o HeaderLines(Tail(hs))

\* the text render() gives the code element for record r
httpMessage(r) ==
  LET fb == formatBody(r.body)
  IN  r.method \o " " \o r.url \o " HTTP/1.1" \o HeaderLines(r.headers)
      \o (IF Truthy(fb) THEN "\n\n" \o fb.s ELSE "")

\* render() with this.lastRequest holding `req` (NULLV or a record) and
\* this.container holding `container`: the container afterwards, and whether
\* the call threw before touching it.  A container is its element structure
\* (tag), the text content of that element, and the timestamp shown beneath
\* (0: none); window.hljs decorates the code element and leaves its text.
render(req, container) ==
  IF ~Truthy(req)
  THEN [threw |-> FALSE, container |-> EmptyState]
  ELSE IF BodyThrows(req.body)
       THEN [threw |-> TRUE, container |-> container]
       ELSE [threw |-> FALSE,
             container |-> [tag |-> "pre>code", text |-> httpMessage(req),
                            time |-> req.timestamp]]

\* ------------------------------------------------------------------ inputs
XhrObjs == {"x1", "x2"}

\* "hello"
Hello == Chars(<<"h", "e", "l", "l", "o">>)
\* "<a><b>x</b></a>"
Markup ==
  Chars(<<"<", "a", ">", "<", "b", ">", "x", "<", "/", "b", ">", "<", "/", "a", ">">>)
\* a FormData holding (a, 1), (b, 2)
Form == [t |-> "FormData", entries |-> <<[k |-> "a", v |-> "1"], [k |-> "b", v |-> "2"]>>]
\* Object.create(null): truthy, not a string, not a FormData, no toString
Bare == [t |-> "bare"]

\* what a page passes as fetch's first argument: a URL string, a Request,
\* or null (which the platform fetch requests as the URL "null")
Resources == {S("/api"), [t |-> "Request", url |-> "/r"], NULLV}

\* what a page passes as init.headers
HeaderInits ==
  { UNDEF,
    \* new Headers({"X-Test": "1"}): forEach yields lower-cased names
    [t |-> "Headers", entries |-> <<[k |-> "x-test", v |-> S("1")]>>],
    \* {"X-Test": "1"}
    [t |-> "object", props |-> <<[k |-> "X-Test", v |-> S("1")]>>],
    \* "X-Test: 1"
    S("X-Test: 1"),
    \* 7
    [t |-> "number", n |-> 7],
    \* [["A", "1"]]: an array, whose own enumerable property is "0"
    [t |-> "array", s |-> "A,1",
     props |-> <<[k |-> "0", v |-> [t |-> "array", s |-> "A,1"]]>>] }

\* the bodies a page passes that formatBody can format
FetchBodies == {UNDEF, Hello, Markup, Form}

\* {method, headers, body} with the members a page sets
Config(m, h, b) == [t |-> "object", method |-> m, headers |-> h, body |-> b]

\* ("/api", {method: "POST", headers: {"X-Test": "1"}, body: "hello"})
PostConfig ==
  Config(S("POST"), [t |-> "object", props |-> <<[k |-> "X-Test", v |-> S("1")]>>], Hello)

\* what a page passes as fetch's second argument
Configs ==
  {UNDEF} \cup {Config(m, h, b) : m \in {UNDEF, S("POST")}, h \in HeaderInits, b \in FetchBodies}

\* every (resource, config) pair of the shapes above; these never make
\* render() throw
AllFetchArgs == {<<r, c>> : r \in Resources, c \in Configs}

\* the pairs a page calls fetch with between its XMLHttpRequest calls: no
\* config, the POST example, a Request, a null resource, a body without toString
FetchArgs ==
  { <<S("/api"), UNDEF>>,
    <<S("/api"), PostConfig>>,
    <<[t |-> "Request", url |-> "/r"], PostConfig>>,
    <<NULLV, UNDEF>>,
    <<S("/api"), Config(UNDEF, UNDEF, Bare)>> }

XhrMethods == {"GET"}
XhrUrls == {"/x"}
HeaderNames == {"A", "B", "__proto__"}
HeaderValues == {"1", "2"}
XhrBodies == {NULLV, Hello, Bare}

\* -------------------------------------------------------------------- state
VARIABLES
  displays,   \* the constructed elements, in construction order: each
              \* [lastRequest, container]; element i installed wrapper layer i
  doc,        \* the elements connected to the document, in document order
  xhr,        \* XMLHttpRequest object -> its _requestDetails (UNDEF before open)
  calls,      \* page-level calls made so far; also the clock new Date() reads
  last        \* what the most recent page-level call did; last.net is "none"
              \* when it started no network request, "pending" while the
              \* request it started is in flight, "settled" once that request
              \* has succeeded or failed

vars == <<displays, doc, xhr, calls, last>>

\* this.lastRequest holds NULLV, an object only this element references
\* (the fetch wrapper's requestDetails), or the very object an XMLHttpRequest
\* holds in _requestDetails (line 134 stores the reference, not a copy).
Own(r) == [t |-> "object", at |-> "own", r |-> r]
Ref(x) == [t |-> "object", at |-> x, r |-> NULLV]

\* the record a lastRequest reference leads to, NULLV for null
Deref(q, xs) ==
  IF q.t = "null" THEN NULLV ELSE IF q.at = "own" THEN q.r ELSE xs[q.at]

\* what every element holds and shows: its record and its container
View(ds, xs) ==
  [i \in 1..Len(ds) |-> [lastRequest |-> Deref(ds[i].lastRequest, xs),
                         container |-> ds[i].container]]

NoCall ==
  [api |-> "none", this |-> "none", args |-> <<>>, layers |-> 0,
   ran |-> <<>>, fwd |-> <<>>, threw |-> FALSE, net |-> "none"]

Init ==
  /\ displays = <<>>
  /\ doc = <<>>
  /\ xhr = [x \in XhrObjs |-> UNDEF]
  /\ calls = 0
  /\ last = NoCall

\* --------------------------------------------------------------- platform
\* The entry point as the platform defines it, reached below wrapper layer 1.
\* st is the heap during one page-level call: ds, xs, the wrapper layers that
\* have run, the platform calls made (with what the elements held and showed
\* then), and whether an exception is propagating.
Real(api, this, args, st) ==
  [st EXCEPT !.fwd = Append(@, [api |-> api, this |-> this, args |-> args,
                                shown |-> View(st.ds, st.xs)])]

\* a lookup that falls back to the first constructed element
querySelectorOrFirst(d) == IF d = <<>> THEN 1 ELSE d[1]

\* document.querySelector('network-last-request'): 0 when there is none
querySelector(d) == IF d = <<>> THEN 0 ELSE d[1]

\* ------------------------------------------------------------ fetch wrapper
\* lines 68-80
fetchHeaders(config) ==
  IF ~Truthy(config) THEN <<>>
  ELSE IF ~Truthy(config.headers) THEN <<>>
  ELSE IF config.headers.t = "Headers" THEN SetAll(<<>>, config.headers.entries)
  ELSE IF config.headers.t \in {"object", "array"} THEN config.headers.props
  ELSE <<>>

\* resource.toString() throws a TypeError on null and undefined
ToStringThrows(resource) == resource.t \in {"null", "undefined"}

\* lines 83-86
fullUrl(resource) ==
  IF resource.t = "Request" THEN resource.url ELSE resource.s

\* lines 89-95
requestDetails(resource, config, now) ==
  [t |-> "object",
   method |-> IF Truthy(config) /\ Truthy(config.method) THEN config.method.s ELSE "GET",
   url |-> fullUrl(resource),
   headers |-> fetchHeaders(config),
   body |-> IF Truthy(config) THEN config.body ELSE UNDEF,
   timestamp |-> now]

\* the assignment of line 98 without the render() of line 99
DeliverWithoutRender(i, q, st) ==
  [st EXCEPT !.ds[i].lastRequest = q, !.threw = FALSE]

\* lines 98-99 on element i: this.lastRequest = r; this.render()
Deliver(i, q, st) ==
  LET rd == render(Deref(q, st.xs), st.ds[i].container)
  IN  [st EXCEPT !.ds[i] = [lastRequest |-> q, container |-> rd.container],
                 !.threw = rd.threw]

RECURSIVE Fetch(_, _, _, _)
\* window.fetch as element `layer` installed it (layer 0: the platform's).
\* The wrapper is an async function: what it throws rejects the promise it
\* returns, and nothing below it runs.
Fetch(layer, args, now, st) ==
  IF layer = 0 THEN Real("fetch", "window", args, st)
  ELSE LET st1 == [st EXCEPT !.ran = Append(@, layer)]
       IN  IF ToStringThrows(args[1]) THEN [st1 EXCEPT !.threw = TRUE]
           ELSE LET st2 == Deliver(layer, Own(requestDetails(args[1], args[2], now)), st1)
                IN  IF st2.threw THEN st2 ELSE Fetch(layer - 1, args, now, st2)

\* -------------------------------------------------------------- XHR wrappers
\* an object replaced in _requestDetails stays reachable only from the
\* elements that hold it: their reference becomes one to an object of their own
Unshare(ds, x, xs) ==
  [i \in 1..Len(ds) |->
     IF ds[i].lastRequest.t = "object" /\ ds[i].lastRequest.at = x
     THEN [ds[i] EXCEPT !.lastRequest = Own(xs[x])] ELSE ds[i]]

RECURSIVE Open(_, _, _, _, _)
\* XMLHttpRequest.prototype.open as element `layer` installed it, lines 110-118
Open(layer, x, args, now, st) ==
  IF layer = 0 THEN Real("open", x, args, st)
  ELSE Open(layer - 1, x, args, now,
            [st EXCEPT !.ran = Append(@, layer),
                       !.ds = Unshare(st.ds, x, st.xs),
                       !.xs[x] = [t |-> "object", method |-> args[1], url |-> args[2],
                                  headers |-> <<>>, body |-> UNDEF, timestamp |-> now]])

RECURSIVE SetRequestHeader(_, _, _, _)
\* XMLHttpRequest.prototype.setRequestHeader, lines 120-125
SetRequestHeader(layer, x, args, st) ==
  IF layer = 0 THEN Real("setRequestHeader", x, args, st)
  ELSE SetRequestHeader(layer - 1, x, args,
         IF Truthy(st.xs[x])
         THEN [st EXCEPT !.ran = Append(@, layer),
                         !.xs[x].headers = SetProp(@, args[1], S(args[2]))]
         ELSE [st EXCEPT !.ran = Append(@, layer)])

RECURSIVE Send(_, _, _, _, _)

RECURSIVE SendUnguarded(_, _, _, _, _)
\* send without the test of line 128: delivers whatever _requestDetails holds
SendUnguarded(layer, x, args, d, st) ==
  IF layer = 0 THEN Real("send", x, args, st)
  ELSE LET st1 == [st EXCEPT !.ran = Append(@, layer)]
           component == querySelector(d)
       IN  IF component = 0 THEN Send(layer - 1, x, args, d, st1)
           ELSE LET st3 == Deliver(component, Ref(x), st1)
                IN  IF st3.threw THEN st3 ELSE Send(layer - 1, x, args, d, st3)

\* XMLHttpRequest.prototype.send, lines 127-139; d is the document.
\* An exception out of component.render() leaves the wrapper and every
\* wrapper above it: nothing below runs.
Send(layer, x, args, d, st) ==
  IF layer = 0 THEN Real("send", x, args, st)
  ELSE LET st1 == [st EXCEPT !.ran = Append(@, layer)]
       IN  IF ~Truthy(st1.xs[x]) THEN Send(layer - 1, x, args, d, st1)
           ELSE LET st2 == [st1 EXCEPT !.xs[x].body = args[1]]
                    component == querySelector(d)
                IN  IF component = 0 THEN Send(layer - 1, x, args, d, st2)
                    ELSE LET st3 == Deliver(component, Ref(x), st2)
                         IN  IF st3.threw THEN st3
                             ELSE Send(layer - 1, x, args, d, st3)

\* ------------------------------------------------------------------ actions
Begin == [ds |-> displays, xs |-> xhr, ran |-> <<>>, fwd |-> <<>>, threw |-> FALSE]

\* the variables after a page-level call that left the heap as st
Finish(api, this, args, st) ==
  /\ displays' = st.ds
  /\ xhr' = st.xs
  /\ calls' = calls + 1
  /\ last' = [api |-> api, this |-> this, args |-> args, layers |-> Len(displays),
              ran |-> st.ran, fwd |-> st.fwd, threw |-> st.threw,
              net |-> IF \E i \in 1..Len(st.fwd) : st.fwd[i].api \in {"fetch", "send"}
                      THEN "pending" ELSE "none"]
  /\ UNCHANGED doc

\* new NetworkLastRequest(): lines 5-57.  The element starts disconnected.
Construct ==
  /\ Len(displays) < MaxDisplays
  /\ displays' = Append(displays,
                        [lastRequest |-> NULLV,
                         container |-> render(NULLV, EmptyState).container])
  /\ UNCHANGED <<doc, xhr, calls, last>>

\* the page inserts a constructed element into the document, anywhere
Connect ==
  \E i \in 1..Len(displays), p \in 0..Len(doc) :
    /\ \A j \in 1..Len(doc) : doc[j] # i
    /\ doc' = SubSeq(doc, 1, p) \o <<i>> \o SubSeq(doc, p + 1, Len(doc))
    /\ UNCHANGED <<displays, xhr, calls, last>>

\* the page removes an element from the document
Disconnect ==
  \E p \in 1..Len(doc) :
    /\ doc' = SubSeq(doc, 1, p - 1) \o SubSeq(doc, p + 1, Len(doc))
    /\ UNCHANGED <<displays, xhr, calls, last>>

\* the page calls window.fetch(resource, config)
CallFetch ==
  /\ calls < MaxCalls
  /\ \E args \in FetchArgs :
       Finish("fetch", "window", args, Fetch(Len(displays), args, calls + 1, Begin))

\* the page calls x.open(method, url)
CallOpen ==
  /\ calls < MaxCalls
  /\ \E x \in XhrObjs, method \in XhrMethods, url \in XhrUrls :
       LET args == <<method, url>>
       IN  Finish("open", x, args, Open(Len(displays), x, args, calls + 1, Begin))

\* the page calls x.setRequestHeader(header, value)
CallSetRequestHeader ==
  /\ calls < MaxCalls
  /\ \E x \in XhrObjs, header \in HeaderNames, value \in HeaderValues :
       LET args == <<header, value>>
       IN  Finish("setRequestHeader", x, args,
                  SetRequestHeader(Len(displays), x, args, Begin))

\* the page calls x.send(body)
CallSend ==
  /\ calls < MaxCalls
  /\ \E x \in XhrObjs, body \in XhrBodies :
       LET args == <<body>>
       IN  Finish("send", x, args, Send(Len(displays), x, args, doc, Begin))

\* the forwarded network call completes or fails, alike: no wrapper attached
\* a handler to it (lines 102 and 138 return what the platform call returns)
NetworkSettles ==
  /\ last.net = "pending"
  /\ last' = [last EXCEPT !.net = "settled"]
  /\ UNCHANGED <<displays, doc, xhr, calls>>

\* a page that only calls fetch, with every shape of arguments
CallFetchAny ==
  /\ calls < MaxCalls
  /\ \E args \in AllFetchArgs :
       Finish("fetch", "window", args, Fetch(Len(displays), args, calls + 1, Begin))

Next ==
  \/ Construct
  \/ Connect
  \/ Disconnect
  \/ CallFetch
  \/ CallOpen
  \/ CallSetRequestHeader
  \/ CallSend
  \/ NetworkSettles

Spec == Init /\ [][Next]_vars

FetchNext ==
  \/ Construct
  \/ CallFetchAny
  \/ NetworkSettles

FetchSpec == Init /\ [][FetchNext]_vars

\* ================================================================== claims
\* a step that is one page-level call
Called == calls' = calls + 1

\* the platform entry point was invoked exactly once, with the page's arguments
ForwardedOnce(c) ==
  /\ Len(c.fwd) = 1
  /\ c.fwd[1].api = c.api
  /\ c.fwd[1].this = c.this
  /\ c.fwd[1].args = c.args

\* q2 is the object q referred to before the step (open moves a record out of
\* _requestDetails without changing which object an element refers to)
SameObject(q, q2, xs) ==
  \/ q2 = q
  \/ q.t = "object" /\ q.at # "own" /\ q2 = Own(xs[q.at])

\* C1: with one element, connected, every fetch call and every send on an
\* opened object leaves that call's record in lastRequest, and no other step
\* (open, setRequestHeader, a network call completing or failing) changes
\* which record lastRequest refers to.
C1_Step ==
  (Len(displays) = 1 /\ doc = <<1>> /\ Len(displays') = 1 /\ doc' = <<1>>) =>
    LET q == displays[1].lastRequest
        q2 == displays'[1].lastRequest
    IN  IF Called /\ last'.api = "fetch"
        THEN q2.t = "object" /\ q2.at = "own" /\ q2.r.timestamp = calls'
        ELSE IF Called /\ last'.api = "send" /\ Truthy(xhr[last'.this])
        THEN q2 = Ref(last'.this)
        ELSE SameObject(q, q2, xhr)

C1_SlotHoldsLatestDelivery == [][C1_Step]_vars

\* C2: every call of the wrapped fetch invokes the platform fetch, once, with
\* the page's arguments.
C2_FetchAlwaysForwarded ==
  (last.api = "fetch" /\ last.layers >= 1) => ForwardedOnce(last)

\* C3: when the platform fetch / send is invoked, every element the call
\* delivers to already holds the call's record and already shows it; and the
\* page-level call returns while the request it started is still in flight.
C3_Step ==
  Called =>
    LET c == last'
    IN  /\ (c.api = "fetch" /\ c.layers >= 1) =>
             \A j \in 1..Len(c.fwd) : \A i \in 1..c.layers :
               LET v == c.fwd[j].shown[i]
               IN  /\ v.lastRequest = requestDetails(c.args[1], c.args[2], calls')
                   /\ v.container = [tag |-> "pre>code",
                                     text |-> httpMessage(v.lastRequest),
                                     time |-> calls']
        /\ (c.api = "send" /\ c.layers >= 1 /\ Truthy(xhr[c.this]) /\ doc # <<>>) =>
             \A j \in 1..Len(c.fwd) :
               LET v == c.fwd[j].shown[doc[1]]
               IN  /\ v.lastRequest = [xhr[c.this] EXCEPT !.body = c.args[1]]
                   /\ v.container = [tag |-> "pre>code",
                                     text |-> httpMessage(v.lastRequest),
                                     time |-> v.lastRequest.timestamp]
        /\ (c.api \in {"fetch", "send"} /\ c.fwd # <<>>) => c.net = "pending"

C3_RenderedBeforeForward == [][C3_Step]_vars

\* a send through two wrapper layers delivered, was forwarded, and is in flight
C3_Witness ==
  /\ last.api = "send" /\ last.layers = 2 /\ Len(last.fwd) = 1
  /\ doc # <<>> /\ displays[doc[1]].lastRequest = Ref(last.this)
  /\ last.net = "pending"

\* the mapping the claim describes: an insertion-ordered map, where setting a
\* name replaces its value in place or appends the name at the end
Put(hs, name, value) ==
  IF \E i \in 1..Len(hs) : hs[i].k = name
  THEN [i \in 1..Len(hs) |-> IF hs[i].k = name THEN [k |-> name, v |-> S(value)] ELSE hs[i]]
  ELSE Append(hs, [k |-> name, v |-> S(value)])

\* C4: open attaches a record with the method, the url and no headers;
\* setRequestHeader on an opened object puts the name in the record's header
\* map (last value, first-insertion order); send delivers that record with
\* the body to the first connected element, a null body rendering no body
\* section; and no call changes the record of another object.
C4_Step ==
  (Called /\ last'.layers >= 1) =>
    LET c == last'
    IN  /\ \A x \in XhrObjs : (c.api = "fetch" \/ c.this # x) => xhr'[x] = xhr[x]
        /\ c.api = "open" =>
             /\ xhr'[c.this].method = c.args[1]
             /\ xhr'[c.this].url = c.args[2]
             /\ xhr'[c.this].headers = <<>>
        /\ (c.api = "setRequestHeader" /\ Truthy(xhr[c.this])) =>
             xhr'[c.this] =
               [xhr[c.this] EXCEPT !.headers = Put(@, c.args[1], c.args[2])]
        /\ (c.api = "send" /\ Truthy(xhr[c.this]) /\ doc # <<>>) =>
             /\ Deref(displays'[doc[1]].lastRequest, xhr') =
                  [xhr[c.this] EXCEPT !.body = c.args[1]]
             /\ c.args[1] = NULLV =>
                  displays'[doc[1]].container.text =
                    xhr[c.this].method \o " " \o xhr[c.this].url \o " HTTP/1.1"
                      \o HeaderLines(xhr[c.this].headers)

C4_XhrRecord == [][C4_Step]_vars

\* C5: setRequestHeader and send on an object that was never opened create no
\* record, change no element, throw nothing, and reach the platform method
\* once with the page's arguments.
C5_Step ==
  (/\ Called
   /\ last'.api \in {"setRequestHeader", "send"}
   /\ last'.layers >= 1
   /\ ~Truthy(xhr[last'.this])) =>
    /\ xhr' = xhr
    /\ displays' = displays
    /\ View(displays', xhr') = View(displays, xhr)
    /\ ~last'.threw
    /\ ForwardedOnce(last')

C5_UnopenedIsPassThrough == [][C5_Step]_vars

\* send on a never-opened object went through two layers while an element
\* holding a record is connected
C5_Witness ==
  /\ last.api = "send" /\ last.layers = 2 /\ ~Truthy(xhr[last.this])
  /\ doc # <<>> /\ Truthy(displays[doc[1]].lastRequest)
  /\ Len(last.fwd) = 1

\* C6: send on an opened object while no element is connected changes no
\* element, throws nothing and reaches the platform send once; and only a
\* send on x ever makes an element refer to the record of x.
C6_Step ==
  /\ (/\ Called
      /\ last'.api = "send"
      /\ last'.layers >= 1
      /\ Truthy(xhr[last'.this])
      /\ doc = <<>>) =>
       /\ displays' = displays
       /\ ~last'.threw
       /\ ForwardedOnce(last')
  /\ \A x \in XhrObjs :
       ~(Called /\ last'.api = "send" /\ last'.this = x) =>
         \A i \in 1..Len(displays') :
           displays'[i].lastRequest = Ref(x) =>
             (i <= Len(displays) /\ displays[i].lastRequest = Ref(x))

C7_Step ==
  (Called /\ last'.layers >= 2) =>
    LET c == last'
        k == c.layers
    IN  /\ c.api = "fetch" =>
             /\ c.ran # <<>> /\ c.ran[1] = k
             /\ displays'[k].lastRequest.t = "object"
             /\ Deref(displays'[k].lastRequest, xhr').timestamp = calls'
        /\ (c.api = "send" /\ Truthy(xhr[c.this]) /\ doc # <<>>) =>
             /\ displays'[doc[1]].lastRequest = Ref(c.this)
             /\ \A i \in 1..k : i # doc[1] => displays'[i] = displays[i]

C7_LatestWrapperFirstInDocument == [][C7_Step]_vars

\* the text the claim gives for a record
MessageText(r) ==
  r.method \o " " \o r.url \o " HTTP/1.1" \o HeaderLines(r.headers)
    \o (IF Truthy(formatBody(r.body)) THEN "\n\n" \o formatBody(r.body).s ELSE "")

\* C8: what an element shows is determined by the record lastRequest refers
\* to: the placeholder for none, else the request line, the header lines and
\* the formatted body; the POST example stores and shows exactly what the
\* claim says, and a call without config stores GET.
C8_OutputIsFunctionOfSlot ==
  /\ \A i \in 1..Len(displays) :
       LET r == Deref(displays[i].lastRequest, xhr)
           c == displays[i].container
       IN  IF ~Truthy(r) THEN c = EmptyState
           ELSE /\ c.tag = "pre>code"
                /\ ~BodyThrows(r.body)
                /\ c.text = MessageText(r)
  /\ (last.api = "fetch" /\ last.layers >= 1 /\ last.args = <<S("/api"), PostConfig>>) =>
       \A i \in 1..last.layers :
         /\ displays[i].lastRequest.t = "object"
         /\ displays[i].lastRequest.r.method = "POST"
         /\ displays[i].lastRequest.r.url = "/api"
         /\ displays[i].lastRequest.r.headers = <<[k |-> "X-Test", v |-> S("1")]>>
         /\ displays[i].lastRequest.r.body = Hello
         /\ displays[i].container.text = "POST /api HTTP/1.1\nX-Test: 1\n\nhello"
  /\ (last.api = "fetch" /\ last.layers >= 1 /\ last.args = <<S("/api"), UNDEF>>) =>
       \A i \in 1..last.layers :
         /\ displays[i].lastRequest.t = "object"
         /\ displays[i].lastRequest.r.method = "GET"

\* C9: in a fetch call whose resource can be stringified, a headers value
\* that is a string, a number or an array gives the record an empty header
\* map and the wrapper does not fail; a Headers collection gives its entries.
C9_OddHeadersGiveEmptyMap ==
  (/\ last.api = "fetch"
   /\ last.layers >= 1
   /\ ~ToStringThrows(last.args[1])
   /\ Truthy(last.args[2])) =>
    LET h == last.args[2].headers
        q == displays[last.layers].lastRequest
    IN  /\ h.t \in {"string", "number", "array"} =>
             /\ ~last.threw
             /\ q.t = "object"
             /\ q.r.headers = <<>>
        /\ h.t = "Headers" =>
             /\ q.t = "object"
             /\ q.r.headers = h.entries

\* k, k-1, ..., 1
Countdown(k) == [i \in 1..k |-> k + 1 - i]

\* C10: with k >= 1 elements constructed, one page-level call runs the k
\* wrapper layers once each, latest first, invokes the platform entry point
\* once with the page's arguments, and a fetch call leaves its record in all
\* k elements.
C10_EveryLayerOnceRealOnce ==
  (last.api # "none" /\ last.layers >= 1) =>
    /\ last.ran = Countdown(last.layers)
    /\ ForwardedOnce(last)
    /\ last.api = "fetch" =>
         \A i \in 1..last.layers :
           /\ displays[i].lastRequest.t = "object"
           /\ Deref(displays[i].lastRequest, xhr).timestamp = calls
====
